---- MODULE Spec2Model ----
(***************************************************************************)
(* Helpdesk ticket tracker: the Express route handlers of                  *)
(* server/routes.ts over the DatabaseStorage of server/storage.ts and the  *)
(* tables and zod schemas of shared/schema.ts.                             *)
(*                                                                         *)
(* A request is a process held in a slot of req.  Every handler is cut at  *)
(* its awaits on the database: one action per database round trip, with    *)
(* the synchronous code that follows the await folded into the action.     *)
(* JavaScript objects (request bodies, validated data, update sets) are    *)
(* records whose DOMAIN is the set of keys present.                        *)
(***************************************************************************)
EXTENDS Integers, Sequences, FiniteSets, TLC

VARIABLES
    users,      \* users table: id -> [role, email]
    tickets,    \* tickets table: a set of rows
    nextId,     \* the serial sequence behind tickets.id
    comments,   \* comments table: a set of rows
    nextCid,    \* the serial sequence behind comments.id
    now,        \* the next instant new Date() / defaultNow() returns
    req,        \* the requests in flight, one per slot
    outbox,     \* the calls of emailService, in order; to is whom it mails, if anyone
    issued      \* history: every ticketNumber an insert has stored, in order

vars == <<users, tickets, nextId, comments, nextCid, now, req, outbox, issued>>

----------------------------------------------------------------------------
(* Bounds of the model *)

MaxTickets == 2     \* values the tickets.id sequence may hand out
MaxComments == 1    \* values the comments.id sequence may hand out
MaxTime == 4        \* last instant the clock hands out
MaxReq == 2         \* request slots

(* Program constants *)

PadWidth == 4

NULL == "NULL"
NullTime == 0

UserIds == {"a", "e", "f"}
Ghost == "g"
Principals == UserIds \cup {Ghost}
StatusEnum == {"open", "in_progress", "resolved", "closed"}
PriorityEnum == {"low", "medium", "high", "critical"}
Slots == 1..MaxReq

----------------------------------------------------------------------------
(* JavaScript objects *)

EmptyObj == [k \in {} |-> NULL]

Has(o, k) == k \in DOMAIN o

\* { ...a, ...b }
Spread(a, b) == [k \in DOMAIN a \cup DOMAIN b |-> IF k \in DOMAIN b THEN b[k] ELSE a[k]]

\* the keys of o that a zod object schema with the given shape keeps
Strip(o, keys) == [k \in DOMAIN o \cap keys |-> o[k]]

\* JavaScript truthiness of a nullable string
Truthy(v) == v # NULL /\ v # ""

----------------------------------------------------------------------------
(* shared/schema.ts *)

\* Of the columns a client may send, subject stands for the required texts (subject,
\* description), priority for the required enums (priority, category) and assignedTo
\* for the optional varchars (assignedTo, department): the schema and the handlers
\* treat the members of each group alike.  created_at is never read by a handler.
InsertTicketKeys == {"subject", "priority", "status", "createdBy", "assignedTo"}

InsertTicketRequired == {"subject", "priority", "createdBy"}

ValidTicketValue(k, v) ==
    CASE k = "subject" -> v # NULL
      [] k = "priority" -> v \in PriorityEnum
      [] k = "status" -> v \in StatusEnum \cup {NULL}
      [] k = "createdBy" -> v # NULL
      [] k = "assignedTo" -> TRUE
      [] OTHER -> TRUE

insertTicketSchema(input) ==
    [ok |-> /\ InsertTicketRequired \subseteq DOMAIN input
            /\ \A k \in DOMAIN input \cap InsertTicketKeys : ValidTicketValue(k, input[k]),
     data |-> Strip(input, InsertTicketKeys)]

updateTicketSchema(input) ==
    [ok |-> /\ "id" \in DOMAIN input
            /\ \A k \in DOMAIN input \cap InsertTicketKeys : ValidTicketValue(k, input[k]),
     data |-> Strip(input, InsertTicketKeys \cup {"id"})]

InsertCommentKeys == {"ticketId", "userId", "content", "isInternal"}

InsertCommentRequired == {"userId", "content"}

insertCommentSchema(input) ==
    [ok |-> /\ InsertCommentRequired \subseteq DOMAIN input
            /\ \A k \in DOMAIN input \cap {"userId", "content"} : input[k] # NULL,
     data |-> Strip(input, InsertCommentKeys)]

----------------------------------------------------------------------------
(* Ticket numbers *)

Digits == <<"0", "1", "2", "3", "4", "5", "6", "7", "8", "9">>

RECURSIVE DecimalString(_)
DecimalString(n) ==
    IF n < 10 THEN <<Digits[n + 1]>>
    ELSE DecimalString(n \div 10) \o <<Digits[(n % 10) + 1]>>

RECURSIVE padStart(_, _, _)
padStart(s, width, fill) ==
    IF Len(s) >= width THEN s ELSE padStart(<<fill>> \o s, width, fill)

TicketNumber(count) ==
    <<"T", "K", "T", "-">> \o padStart(DecimalString(count + 1), PadWidth, "0")

----------------------------------------------------------------------------
(* server/storage.ts *)

\* the user as first stored, whatever role the row holds now
getUserAsSeeded(id) ==
    IF id \in DOMAIN users
    THEN {[id |-> id, role |-> IF id = "a" THEN "admin" ELSE "employee", email |-> users[id].email]}
    ELSE {}

getUser(id) ==
    IF id \in DOMAIN users THEN {[id |-> id, role |-> users[id].role, email |-> users[id].email]}
    ELSE {}

getTicketById(id) == {t \in tickets : t.id = id}

getAllTickets == tickets

\* the filter widened to the tickets assigned to the user
getTicketsByUserOrAssignee(userId) ==
    {t \in tickets : t.createdBy = userId \/ t.assignedTo = userId}

getTicketsByUser(userId) == {t \in tickets : t.createdBy = userId}

getCommentsByTicket(ticketId) == {c \in comments : c.ticketId = ticketId}

\* SQL "col = value": NULL (here the empty set) when col is NULL
eq(col, value) == IF col = NULL THEN {} ELSE {col = value}

\* SQL count(expr): the rows where expr, a value per row, is not NULL
count(expr) == Cardinality({t \in DOMAIN expr : expr[t] # {}})

getTicketStats ==
    [total |-> Cardinality(tickets),
     open |-> count([t \in tickets |-> eq(t.status, "open")]),
     inProgress |-> count([t \in tickets |-> eq(t.status, "in_progress")]),
     resolved |-> count([t \in tickets |-> eq(t.status, "resolved")]),
     closed |-> count([t \in tickets |-> eq(t.status, "closed")])]

getTeamMembers == {[id |-> u, role |-> users[u].role, email |-> users[u].email] : u \in DOMAIN users}

\* the columns an insert into tickets fills in when the values leave them out
TicketDefaults(id, at) ==
    [id |-> id, status |-> "open", assignedTo |-> NULL,
     updatedAt |-> at, resolvedAt |-> NullTime, closedAt |-> NullTime]

\* foreign keys of a tickets row
TicketRefsOk(row) ==
    /\ row.createdBy \in DOMAIN users
    /\ row.assignedTo = NULL \/ row.assignedTo \in DOMAIN users

\* tickets.id is the primary key
TicketKeyOk(row, others) == \A t \in others : t.id # row.id

\* comments.ticket_id references tickets.id
CommentRefsOk(rows) == \A c \in comments : \E t \in rows : t.id = c.ticketId

\* the table without the unique constraint
TicketUniqueOff(row, others) == TRUE

\* ticket_number is unique
TicketUniqueOk(row, others) == \A t \in others : t.ticketNumber # row.ticketNumber

\* the update that puts null where the request has no assignee
UpdatedRowReplaced(row, updates, at) ==
    Spread(row, Spread([assignedTo |-> NULL], Spread(updates, [updatedAt |-> at])))

\* db.update(tickets).set({...updates, updatedAt}).where(eq(tickets.id, id))
UpdatedRow(row, updates, at) == Spread(row, Spread(updates, [updatedAt |-> at]))

----------------------------------------------------------------------------
(* Requests *)

IdleReq ==
    [op |-> "none", pc |-> "idle", principal |-> NULL, id |-> 0, body |-> EmptyObj,
     target |-> NULL, user |-> {}, ticket |-> {}, data |-> EmptyObj, at |-> NullTime,
     count |-> 0, code |-> 0, out |-> {}]

Free(s) == req[s].pc \in {"idle", "done"}

Quiet == \A s \in Slots : Free(s)

Arrive(op, pc, p, id, body) ==
    [IdleReq EXCEPT !.op = op, !.pc = pc, !.principal = p, !.id = id, !.body = body]

\* res.status(code).json(out); the handler's locals die with it
Respond(r, code, out) ==
    [IdleReq EXCEPT !.op = r.op, !.pc = "done", !.principal = r.principal, !.id = r.id,
                    !.target = r.target, !.body = r.body, !.code = code, !.out = out]

\* the check that lets through whoever is not known as an employee
IsNotEmployee(user) == ~\E u \in user : u.role = "employee"

\* user?.role === 'admin'
IsAdmin(user) == \E u \in user : u.role = "admin"

\* Each reading of the clock returns a later instant than the one before, so that
\* a stamp written twice shows as a changed value.
\* requests under way that will still read the clock, draw a ticket id, draw a comment id
Stamping ==
    Cardinality({s \in Slots : \/ req[s].op = "postTicket" /\ req[s].pc = "insert"
                               \/ req[s].op = "patchTicket" /\ req[s].pc = "getTicket"})

Inserting == Cardinality({s \in Slots : req[s].op = "postTicket" /\ req[s].pc = "insert"})

Commenting == Cardinality({s \in Slots : req[s].op = "postComment" /\ ~Free(s)})

Init ==
    /\ users = [u \in UserIds |->
                  IF u = "a" THEN [role |-> "admin", email |-> "a@x"]
                  ELSE IF u = "e" THEN [role |-> "employee", email |-> "e@x"]
                  ELSE [role |-> "employee", email |-> NULL]]
    /\ tickets = {}
    /\ nextId = 1
    /\ comments = {}
    /\ nextCid = 1
    /\ now = 1
    /\ req = [s \in Slots |-> IdleReq]
    /\ outbox = <<>>
    /\ issued = <<>>

----------------------------------------------------------------------------
(* POST /api/tickets *)

\* the merge that lets the body speak last
TicketInputBodyLast(body, userId) == Spread([createdBy |-> userId], body)

\* { ...req.body, createdBy: userId }
TicketInput(body, userId) == Spread(body, [createdBy |-> userId])

\* the request arrives, the body is validated and createTicket counts the rows;
\* limit is the last value the tickets.id sequence may hand out
PostTicketWithin(s, p, body, limit) ==
    /\ Free(s)
    /\ nextId + Inserting <= limit
    /\ now + Stamping <= MaxTime
    /\ LET r == Arrive("postTicket", "insert", p, 0, body)
           parsed == insertTicketSchema(TicketInput(body, p))
       IN req' = [req EXCEPT ![s] =
                    IF ~parsed.ok THEN Respond(r, 400, {})
                    ELSE [r EXCEPT !.data = parsed.data, !.count = Cardinality(tickets)]]
    /\ UNCHANGED <<users, tickets, nextId, comments, nextCid, now, outbox, issued>>

PostTicket(s, p, body) == PostTicketWithin(s, p, body, MaxTickets)

\* the insert whose failure is swallowed: the handler goes on without a row
PostTicketInsertSwallowed(s) ==
    /\ req[s].op = "postTicket" /\ req[s].pc = "insert"
    /\ LET r == req[s]
           ticketNumber == TicketNumber(r.count)
           row == Spread(TicketDefaults(nextId, now),
                         Spread(r.data, [ticketNumber |-> ticketNumber]))
       IN /\ nextId' = nextId + 1
          /\ now' = now + 1
          /\ IF TicketRefsOk(row) /\ TicketKeyOk(row, tickets) /\ TicketUniqueOk(row, tickets)
             THEN /\ tickets' = tickets \cup {row}
                  /\ issued' = Append(issued, ticketNumber)
                  /\ req' = [req EXCEPT ![s] = [r EXCEPT !.pc = "notify", !.ticket = {row}]]
             ELSE /\ req' = [req EXCEPT ![s] = [r EXCEPT !.pc = "notify"]]
                  /\ UNCHANGED <<tickets, issued>>
    /\ UNCHANGED <<users, comments, nextCid, outbox>>

\* createTicket inserts the row
PostTicketInsert(s) ==
    /\ req[s].op = "postTicket" /\ req[s].pc = "insert"
    /\ LET r == req[s]
           ticketNumber == TicketNumber(r.count)
           row == Spread(TicketDefaults(nextId, now),
                         Spread(r.data, [ticketNumber |-> ticketNumber]))
       IN /\ nextId' = nextId + 1
          /\ now' = now + 1
          /\ IF TicketRefsOk(row) /\ TicketKeyOk(row, tickets) /\ TicketUniqueOk(row, tickets)
             THEN /\ tickets' = tickets \cup {row}
                  /\ issued' = Append(issued, ticketNumber)
                  /\ req' = [req EXCEPT ![s] = [r EXCEPT !.pc = "notify", !.ticket = {row}]]
             ELSE /\ req' = [req EXCEPT ![s] = Respond(r, 500, {})]
                  /\ UNCHANGED <<tickets, issued>>
    /\ UNCHANGED <<users, comments, nextCid, outbox>>

\* the notification sent to every user with an email, whatever the role
CreatedMailToAll(r) ==
    LET emails == {u.email : u \in {x \in getTeamMembers : Truthy(x.email)}}
    IN IF emails # {} /\ getUser(r.principal) # {}
       THEN <<[kind |-> "created", ticket |-> r.ticket, to |-> emails]>>
       ELSE <<>>

\* getTeamMembers, getUser and the call of sendTicketCreatedNotification, if any
CreatedMail(r) ==
    LET adminEmails == {u.email : u \in {x \in getTeamMembers :
                                             x.role = "admin" /\ Truthy(x.email)}}
        creator == getUser(r.principal)
    IN IF adminEmails # {} /\ creator # {}
       THEN <<[kind |-> "created", ticket |-> r.ticket, to |-> adminEmails]>>
       ELSE <<>>

\* the notification, with sendMail settled at once, then the response
PostTicketNotify(s) ==
    /\ req[s].op = "postTicket" /\ req[s].pc = "notify"
    /\ outbox' = outbox \o CreatedMail(req[s])
    /\ req' = [req EXCEPT ![s] = Respond(req[s], 201, req[s].ticket)]
    /\ UNCHANGED <<users, tickets, nextId, comments, nextCid, now, issued>>

\* The same three steps after the write with the two awaits apart: the queries
\* of the notification, which the database may reject, and sendMail, which the
\* handler awaits before it answers.

\* getTeamMembers or getUser rejects: the catch of the route answers 500
PostTicketLookupFails(s) ==
    /\ req[s].op = "postTicket" /\ req[s].pc = "notify"
    /\ req' = [req EXCEPT ![s] = Respond(req[s], 500, {})]
    /\ UNCHANGED <<users, tickets, nextId, comments, nextCid, now, outbox, issued>>

\* the notification is handed to sendMail and the handler awaits it
PostTicketSend(s) ==
    /\ req[s].op = "postTicket" /\ req[s].pc = "notify"
    /\ LET r == req[s]
           mail == CreatedMail(r)
       IN /\ outbox' = outbox \o mail
          /\ req' = [req EXCEPT ![s] = IF mail # <<>> THEN [r EXCEPT !.pc = "sending"]
                                       ELSE Respond(r, 201, r.ticket)]
    /\ UNCHANGED <<users, tickets, nextId, comments, nextCid, now, issued>>

\* sendMail settles: resolved, or rejected, caught and logged by the service
PostTicketSettle(s) ==
    /\ req[s].op = "postTicket" /\ req[s].pc = "sending"
    /\ req' = [req EXCEPT ![s] = Respond(req[s], 201, req[s].ticket)]
    /\ UNCHANGED <<users, tickets, nextId, comments, nextCid, now, outbox, issued>>

----------------------------------------------------------------------------
(* PATCH /api/tickets/:id *)

\* the request arrives and getUser reads the caller
PatchTicket(s, p, id, body) ==
    /\ Free(s)
    /\ now + Stamping <= MaxTime
    /\ req' = [req EXCEPT ![s] =
                 [Arrive("patchTicket", "getTicket", p, id, body) EXCEPT !.user = getUser(p)]]
    /\ UNCHANGED <<users, tickets, nextId, comments, nextCid, now, outbox, issued>>

\* the stamps without the check that the ticket has none yet
UpdatesRestamped(validatedData, ticket, at) ==
    Spread(validatedData,
           Spread(IF Has(validatedData, "status") /\ validatedData["status"] = "resolved"
                  THEN [resolvedAt |-> at] ELSE EmptyObj,
                  IF Has(validatedData, "status") /\ validatedData["status"] = "closed"
                  THEN [closedAt |-> at] ELSE EmptyObj))

\* const updates = { ...validatedData } plus the status stamps
Updates(validatedData, ticket, at) ==
    Spread(validatedData,
           Spread(IF Has(validatedData, "status") /\ validatedData["status"] = "resolved"
                     /\ ticket.resolvedAt = NullTime
                  THEN [resolvedAt |-> at] ELSE EmptyObj,
                  IF Has(validatedData, "status") /\ validatedData["status"] = "closed"
                     /\ ticket.closedAt = NullTime
                  THEN [closedAt |-> at] ELSE EmptyObj))

\* the check with the creator let through as well
MayUpdateOrCreator(user, ticket, userId) ==
    IsAdmin(user) \/ ticket.assignedTo = userId \/ ticket.createdBy = userId

\* Only admins and assignees can update tickets
MayUpdate(user, ticket, userId) == IsAdmin(user) \/ ticket.assignedTo = userId

\* getTicketById, the permission check, the validation and the new Date() stamps
PatchTicketRead(s) ==
    /\ req[s].op = "patchTicket" /\ req[s].pc = "getTicket"
    /\ LET r == req[s]
           found == getTicketById(r.id)
           parsed == updateTicketSchema(Spread([id |-> r.id], r.body))
           denied == \E t \in found : ~MayUpdate(r.user, t, r.principal)
       IN IF found = {} \/ denied \/ ~parsed.ok
          THEN /\ req' = [req EXCEPT ![s] =
                            Respond(r, IF found = {} THEN 404 ELSE IF denied THEN 403 ELSE 400, {})]
               /\ UNCHANGED now
          ELSE /\ req' = [req EXCEPT ![s] =
                            [r EXCEPT !.pc = "update", !.ticket = found,
                                      !.data = parsed.data, !.at = now]]
               /\ now' = now + 1
    /\ UNCHANGED <<users, tickets, nextId, comments, nextCid, outbox, issued>>

\* the condition without the look at the status the ticket had
ClosedDueAgain(validatedData, ticket) ==
    Has(validatedData, "status") /\ validatedData["status"] = "closed"

ClosedDue(validatedData, ticket) ==
    /\ Has(validatedData, "status") /\ validatedData["status"] = "closed"
    /\ ticket.status # "closed"

\* the condition without the look at the assignee the ticket had
AssignedDueAgain(validatedData, ticket) ==
    Has(validatedData, "assignedTo") /\ Truthy(validatedData["assignedTo"])

AssignedDue(validatedData, ticket) ==
    /\ Has(validatedData, "assignedTo") /\ Truthy(validatedData["assignedTo"])
    /\ validatedData["assignedTo"] # ticket.assignedTo

AfterUpdate(r, ticket) ==
    IF ClosedDue(r.data, ticket) THEN [r EXCEPT !.pc = "notifyClosed"]
    ELSE IF AssignedDue(r.data, ticket) THEN [r EXCEPT !.pc = "notifyAssigned"]
    ELSE Respond(r, 200, r.out)

\* storage.updateTicket writes the row
PatchTicketUpdate(s) ==
    /\ req[s].op = "patchTicket" /\ req[s].pc = "update"
    /\ LET r == req[s]
           ticket == CHOOSE t \in r.ticket : TRUE
           updates == Updates(r.data, ticket, r.at)
           old == getTicketById(r.id)
           new == {UpdatedRow(t, updates, r.at) : t \in old}
       IN IF /\ \A t \in new : TicketRefsOk(t) /\ TicketKeyOk(t, tickets \ old)
             /\ CommentRefsOk((tickets \ old) \cup new)
          THEN /\ tickets' = (tickets \ old) \cup new
               /\ req' = [req EXCEPT ![s] = AfterUpdate([r EXCEPT !.out = new], ticket)]
          ELSE /\ req' = [req EXCEPT ![s] = Respond(r, 500, {})]
               /\ UNCHANGED tickets
    /\ UNCHANGED <<users, nextId, comments, nextCid, now, outbox, issued>>

\* getTicketById and the call of sendTicketClosedNotification, if any; the service
\* mails the creator, or nobody when the creator has no email
ClosedMail(r) ==
    LET fullTicket == getTicketById(r.id)
    IN IF fullTicket # {}
       THEN <<[kind |-> "closed", ticket |-> fullTicket,
               to |-> {u.email : u \in {x \in UNION {getUser(t.createdBy) : t \in fullTicket} :
                                           Truthy(x.email)}}]>>
       ELSE <<>>

\* getUser(assignedTo), getTicketById and the call of sendTicketAssignedNotification,
\* if any; the service mails the assignee, or nobody when the assignee has no email
AssignedMail(r) ==
    LET assignee == getUser(r.data["assignedTo"])
        fullTicket == getTicketById(r.id)
    IN IF assignee # {} /\ fullTicket # {}
       THEN <<[kind |-> "assigned", ticket |-> fullTicket,
               to |-> {u.email : u \in {x \in assignee : Truthy(x.email)}}]>>
       ELSE <<>>

\* the closed notification, with sendMail settled at once
PatchTicketNotifyClosed(s) ==
    /\ req[s].op = "patchTicket" /\ req[s].pc = "notifyClosed"
    /\ LET r == req[s]
           ticket == CHOOSE t \in r.ticket : TRUE
       IN /\ outbox' = outbox \o ClosedMail(r)
          /\ req' = [req EXCEPT ![s] =
                       IF AssignedDue(r.data, ticket) THEN [r EXCEPT !.pc = "notifyAssigned"]
                       ELSE Respond(r, 200, r.out)]
    /\ UNCHANGED <<users, tickets, nextId, comments, nextCid, now, issued>>

\* the assigned notification, with sendMail settled at once, then the response
PatchTicketNotifyAssigned(s) ==
    /\ req[s].op = "patchTicket" /\ req[s].pc = "notifyAssigned"
    /\ outbox' = outbox \o AssignedMail(req[s])
    /\ req' = [req EXCEPT ![s] = Respond(req[s], 200, req[s].out)]
    /\ UNCHANGED <<users, tickets, nextId, comments, nextCid, now, issued>>

\* getTicketById or getUser rejects: the catch of the route answers 500
PatchTicketRereadFails(s) ==
    /\ req[s].op = "patchTicket" /\ req[s].pc \in {"notifyClosed", "notifyAssigned"}
    /\ req' = [req EXCEPT ![s] = Respond(req[s], 500, {})]
    /\ UNCHANGED <<users, tickets, nextId, comments, nextCid, now, outbox, issued>>

\* the handler after the closed notification
AfterClosed(r) ==
    IF \E t \in r.ticket : AssignedDue(r.data, t) THEN [r EXCEPT !.pc = "notifyAssigned"]
    ELSE Respond(r, 200, r.out)

\* the closed notification is handed to sendMail, if the creator has an email,
\* and the handler awaits it
PatchTicketSendClosed(s) ==
    /\ req[s].op = "patchTicket" /\ req[s].pc = "notifyClosed"
    /\ LET r == req[s]
           mail == ClosedMail(r)
       IN /\ outbox' = outbox \o mail
          /\ req' = [req EXCEPT ![s] =
                       IF \E i \in 1..Len(mail) : mail[i].to # {}
                       THEN [r EXCEPT !.pc = "sendingClosed"]
                       ELSE AfterClosed(r)]
    /\ UNCHANGED <<users, tickets, nextId, comments, nextCid, now, issued>>

PatchTicketSettleClosed(s) ==
    /\ req[s].op = "patchTicket" /\ req[s].pc = "sendingClosed"
    /\ req' = [req EXCEPT ![s] = AfterClosed(req[s])]
    /\ UNCHANGED <<users, tickets, nextId, comments, nextCid, now, outbox, issued>>

\* the assigned notification is handed to sendMail, if the assignee has an email,
\* and the handler awaits it
PatchTicketSendAssigned(s) ==
    /\ req[s].op = "patchTicket" /\ req[s].pc = "notifyAssigned"
    /\ LET r == req[s]
           mail == AssignedMail(r)
       IN /\ outbox' = outbox \o mail
          /\ req' = [req EXCEPT ![s] =
                       IF \E i \in 1..Len(mail) : mail[i].to # {}
                       THEN [r EXCEPT !.pc = "sendingAssigned"]
                       ELSE Respond(r, 200, r.out)]
    /\ UNCHANGED <<users, tickets, nextId, comments, nextCid, now, issued>>

PatchTicketSettleAssigned(s) ==
    /\ req[s].op = "patchTicket" /\ req[s].pc = "sendingAssigned"
    /\ req' = [req EXCEPT ![s] = Respond(req[s], 200, req[s].out)]
    /\ UNCHANGED <<users, tickets, nextId, comments, nextCid, now, outbox, issued>>

----------------------------------------------------------------------------
(* DELETE /api/tickets/:id *)

\* the request arrives and getUser reads the caller; only admins can delete tickets
DeleteTicket(s, p, id) ==
    /\ Free(s)
    /\ LET r == Arrive("deleteTicket", "delete", p, id, EmptyObj)
       IN req' = [req EXCEPT ![s] = IF ~IsAdmin(getUser(p)) THEN Respond(r, 403, {}) ELSE r]
    /\ UNCHANGED <<users, tickets, nextId, comments, nextCid, now, outbox, issued>>

\* storage.deleteTicket; comments.ticket_id references tickets.id
DeleteTicketDelete(s) ==
    /\ req[s].op = "deleteTicket" /\ req[s].pc = "delete"
    /\ LET r == req[s]
           old == getTicketById(r.id)
       IN IF old # {} /\ getCommentsByTicket(r.id) # {}
          THEN /\ req' = [req EXCEPT ![s] = Respond(r, 500, {})]
               /\ UNCHANGED tickets
          ELSE /\ tickets' = tickets \ old
               /\ req' = [req EXCEPT ![s] = Respond(r, 204, {})]
    /\ UNCHANGED <<users, nextId, comments, nextCid, now, outbox, issued>>

----------------------------------------------------------------------------
(* GET /api/tickets and GET /api/tickets/:id *)

ListTickets(s, p) ==
    /\ Free(s)
    /\ req' = [req EXCEPT ![s] =
                 [Arrive("listTickets", "list", p, 0, EmptyObj) EXCEPT !.user = getUser(p)]]
    /\ UNCHANGED <<users, tickets, nextId, comments, nextCid, now, outbox, issued>>

ListTicketsRead(s) ==
    /\ req[s].op = "listTickets" /\ req[s].pc = "list"
    /\ LET r == req[s]
       IN req' = [req EXCEPT ![s] =
                    Respond(r, 200, IF IsAdmin(r.user) THEN getAllTickets
                                    ELSE getTicketsByUser(r.principal))]
    /\ UNCHANGED <<users, tickets, nextId, comments, nextCid, now, outbox, issued>>

\* the check with the comparison of the assignee turned round
MayReadUnassigned(user, ticket, userId) ==
    IsAdmin(user) \/ ticket.createdBy = userId \/ ticket.assignedTo # userId

\* the permission check of the three handlers that read a ticket
MayRead(user, ticket, userId) ==
    IsAdmin(user) \/ ticket.createdBy = userId \/ ticket.assignedTo = userId

GetTicket(s, p, id) ==
    /\ Free(s)
    /\ req' = [req EXCEPT ![s] =
                 [Arrive("getTicket", "getTicket", p, id, EmptyObj) EXCEPT !.user = getUser(p)]]
    /\ UNCHANGED <<users, tickets, nextId, comments, nextCid, now, outbox, issued>>

\* getTicketById returns the ticket with its comments
GetTicketRead(s) ==
    /\ req[s].op = "getTicket" /\ req[s].pc = "getTicket"
    /\ LET r == req[s]
           found == getTicketById(r.id)
       IN req' = [req EXCEPT ![s] =
                    IF found = {} THEN Respond(r, 404, {})
                    ELSE IF \E t \in found : ~MayRead(r.user, t, r.principal)
                    THEN Respond(r, 403, {})
                    ELSE Respond(r, 200, found \cup getCommentsByTicket(r.id))]
    /\ UNCHANGED <<users, tickets, nextId, comments, nextCid, now, outbox, issued>>

----------------------------------------------------------------------------
(* GET and POST /api/tickets/:id/comments *)

GetComments(s, p, id) ==
    /\ Free(s)
    /\ req' = [req EXCEPT ![s] =
                 [Arrive("getComments", "getTicket", p, id, EmptyObj) EXCEPT !.user = getUser(p)]]
    /\ UNCHANGED <<users, tickets, nextId, comments, nextCid, now, outbox, issued>>

GetCommentsCheck(s) ==
    /\ req[s].op = "getComments" /\ req[s].pc = "getTicket"
    /\ LET r == req[s]
           found == getTicketById(r.id)
       IN req' = [req EXCEPT ![s] =
                    IF found = {} THEN Respond(r, 404, {})
                    ELSE IF \E t \in found : ~MayRead(r.user, t, r.principal)
                    THEN Respond(r, 403, {})
                    ELSE [r EXCEPT !.pc = "comments"]]
    /\ UNCHANGED <<users, tickets, nextId, comments, nextCid, now, outbox, issued>>

GetCommentsRead(s) ==
    /\ req[s].op = "getComments" /\ req[s].pc = "comments"
    /\ req' = [req EXCEPT ![s] = Respond(req[s], 200, getCommentsByTicket(req[s].id))]
    /\ UNCHANGED <<users, tickets, nextId, comments, nextCid, now, outbox, issued>>

PostComment(s, p, id, body) ==
    /\ Free(s)
    /\ nextCid + Commenting <= MaxComments
    /\ req' = [req EXCEPT ![s] =
                 [Arrive("postComment", "getTicket", p, id, body) EXCEPT !.user = getUser(p)]]
    /\ UNCHANGED <<users, tickets, nextId, comments, nextCid, now, outbox, issued>>

PostCommentCheck(s) ==
    /\ req[s].op = "postComment" /\ req[s].pc = "getTicket"
    /\ LET r == req[s]
           found == getTicketById(r.id)
           parsed == insertCommentSchema(
                         Spread(r.body, [ticketId |-> r.id, userId |-> r.principal]))
       IN req' = [req EXCEPT ![s] =
                    IF found = {} THEN Respond(r, 404, {})
                    ELSE IF \E t \in found : ~MayRead(r.user, t, r.principal)
                    THEN Respond(r, 403, {})
                    ELSE IF ~parsed.ok THEN Respond(r, 400, {})
                    ELSE [r EXCEPT !.pc = "insert", !.data = parsed.data]]
    /\ UNCHANGED <<users, tickets, nextId, comments, nextCid, now, outbox, issued>>

\* storage.createComment; ticket_id and user_id are foreign keys
PostCommentInsert(s) ==
    /\ req[s].op = "postComment" /\ req[s].pc = "insert"
    /\ LET r == req[s]
           row == Spread([id |-> nextCid, isInternal |-> FALSE], r.data)
       IN /\ nextCid' = nextCid + 1
          /\ IF getTicketById(row.ticketId) # {} /\ row.userId \in DOMAIN users
             THEN /\ comments' = comments \cup {row}
                  /\ req' = [req EXCEPT ![s] = Respond(r, 201, {row})]
             ELSE /\ req' = [req EXCEPT ![s] = Respond(r, 500, {})]
                  /\ UNCHANGED comments
    /\ UNCHANGED <<users, tickets, nextId, now, outbox, issued>>

----------------------------------------------------------------------------
(* GET /api/stats *)

GetStats(s, p) ==
    /\ Free(s)
    /\ LET r == Arrive("getStats", "stats", p, 0, EmptyObj)
       IN req' = [req EXCEPT ![s] = IF ~IsAdmin(getUser(p)) THEN Respond(r, 403, {}) ELSE r]
    /\ UNCHANGED <<users, tickets, nextId, comments, nextCid, now, outbox, issued>>

GetStatsRead(s) ==
    /\ req[s].op = "getStats" /\ req[s].pc = "stats"
    /\ req' = [req EXCEPT ![s] = Respond(req[s], 200, {getTicketStats})]
    /\ UNCHANGED <<users, tickets, nextId, comments, nextCid, now, outbox, issued>>

----------------------------------------------------------------------------
(* GET /api/team and PATCH /api/team/:userId/role *)

ListTeam(s, p) ==
    /\ Free(s)
    /\ LET r == Arrive("listTeam", "team", p, 0, EmptyObj)
       IN req' = [req EXCEPT ![s] = IF ~IsAdmin(getUser(p)) THEN Respond(r, 403, {}) ELSE r]
    /\ UNCHANGED <<users, tickets, nextId, comments, nextCid, now, outbox, issued>>

ListTeamRead(s) ==
    /\ req[s].op = "listTeam" /\ req[s].pc = "team"
    /\ req' = [req EXCEPT ![s] = Respond(req[s], 200, getTeamMembers)]
    /\ UNCHANGED <<users, tickets, nextId, comments, nextCid, now, outbox, issued>>

RoleEnum == {"employee", "admin"}

\* const { role } = req.body
RoleOf(body) == IF Has(body, "role") THEN body["role"] ELSE NULL

\* the check that takes any role for a valid one
AnyRole(body) == TRUE

\* ['employee', 'admin'].includes(role), role being undefined when the body has none
ValidRole(body) == RoleOf(body) \in RoleEnum

\* the handler that writes the role before it checks it
PatchRoleLateCheck(s, p, target, body) ==
    /\ Free(s)
    /\ LET r == [Arrive("patchRole", "update", p, 0, body) EXCEPT !.target = target]
       IN IF IsAdmin(getUser(p)) /\ ~ValidRole(body) /\ Has(body, "role")
          THEN /\ users' = [u \in DOMAIN users |->
                              IF u = target THEN [users[u] EXCEPT !.role = body["role"]]
                              ELSE users[u]]
               /\ req' = [req EXCEPT ![s] = Respond(r, 400, {})]
          ELSE /\ req' = [req EXCEPT ![s] =
                            IF ~IsAdmin(getUser(p)) THEN Respond(r, 403, {})
                            ELSE IF ~ValidRole(body) THEN Respond(r, 400, {})
                            ELSE r]
               /\ UNCHANGED users
    /\ UNCHANGED <<tickets, nextId, comments, nextCid, now, outbox, issued>>

\* the request arrives, getUser reads the caller and the role is checked
PatchRole(s, p, target, body) ==
    /\ Free(s)
    /\ LET r == [Arrive("patchRole", "update", p, 0, body) EXCEPT !.target = target]
       IN req' = [req EXCEPT ![s] =
                    IF ~IsAdmin(getUser(p)) THEN Respond(r, 403, {})
                    ELSE IF ~ValidRole(body) THEN Respond(r, 400, {})
                    ELSE r]
    /\ UNCHANGED <<users, tickets, nextId, comments, nextCid, now, outbox, issued>>

\* storage.updateUserRole: the rows it returns are the rows it updated.  The
\* updated_at it also writes is read by no handler and is left out of users.
PatchRoleUpdate(s) ==
    /\ req[s].op = "patchRole" /\ req[s].pc = "update"
    /\ LET r == req[s]
           hit == DOMAIN users \cap {r.target}
       IN /\ users' = [u \in DOMAIN users |->
                         IF u \in hit THEN [users[u] EXCEPT !.role = RoleOf(r.body)]
                         ELSE users[u]]
          /\ req' = [req EXCEPT ![s] =
                       Respond(r, 200, {[id |-> u, role |-> users'[u].role,
                                         email |-> users'[u].email] : u \in hit})]
    /\ UNCHANGED <<tickets, nextId, comments, nextCid, now, outbox, issued>>

----------------------------------------------------------------------------
(* Status stamps: tickets are created and updated, one request at a time *)

StampCreateBodies ==
    {[subject |-> "s", priority |-> "high"],
     [subject |-> "s", priority |-> "high", status |-> "resolved"]}

StampPatchBodies ==
    {[status |-> "resolved"], [status |-> "closed"], [status |-> "open"],
     [status |-> "resolved", resolvedAt |-> 99, closedAt |-> 99]}

StampNext ==
    \/ \E p \in {"a", "e"}, body \in StampCreateBodies : Quiet /\ PostTicket(1, p, body)
    \/ \E s \in Slots : PostTicketInsert(s)
    \/ \E s \in Slots : PostTicketNotify(s)
    \/ \E p \in {"a", "e"}, id \in 1..MaxTickets, body \in StampPatchBodies :
          Quiet /\ PatchTicket(1, p, id, body)
    \/ \E s \in Slots : PatchTicketRead(s)
    \/ \E s \in Slots : PatchTicketUpdate(s)
    \/ \E s \in Slots : PatchTicketNotifyClosed(s)

StampSpec == Init /\ [][StampNext]_vars

\* the step is storage.updateTicket of a request for ticket id that asks for the status
Requests(id, status) ==
    \E s \in Slots :
        /\ req[s].op = "patchTicket" /\ req[s].pc = "update" /\ req'[s].pc # "update"
        /\ req[s].id = id
        /\ Has(req[s].data, "status") /\ req[s].data["status"] = status

\* C1: resolvedAt is null on a new ticket and stays null until an update that asks
\* for status resolved, which sets it; once set it never changes again, whatever the
\* later statuses; closedAt does the same with status closed, and neither stamp
\* moves on a step that stamps the other.
C1_StampsSetOnce ==
    [][/\ \A n \in tickets' :
             (\A t \in tickets : t.id # n.id) =>
                 n.resolvedAt = NullTime /\ n.closedAt = NullTime
       /\ \A t \in tickets : \A n \in tickets' :
             t.id = n.id =>
                 /\ t.resolvedAt # NullTime => n.resolvedAt = t.resolvedAt
                 /\ t.closedAt # NullTime => n.closedAt = t.closedAt
                 /\ t.resolvedAt = NullTime =>
                       (n.resolvedAt # NullTime <=> Requests(t.id, "resolved"))
                 /\ t.closedAt = NullTime =>
                       (n.closedAt # NullTime <=> Requests(t.id, "closed"))]_vars

\* a ticket resolved, then closed, then resolved again
C1_Witness ==
    \E t \in tickets :
        /\ t.status = "resolved" /\ t.resolvedAt # NullTime
        /\ t.closedAt > t.resolvedAt /\ t.updatedAt > t.closedAt

\* C26: every ticket of the store with status resolved has a resolvedAt and every
\* ticket with status closed has a closedAt.
C26_StatusHasStamp ==
    \A t \in tickets :
        /\ t.status = "resolved" => t.resolvedAt # NullTime
        /\ t.status = "closed" => t.closedAt # NullTime

----------------------------------------------------------------------------
(* Ticket numbers: tickets are created and deleted, one request at a time *)

PlainBody == [subject |-> "s", priority |-> "high"]

NumberNext ==
    \/ \E p \in Principals : Quiet /\ PostTicket(1, p, PlainBody)
    \/ \E s \in Slots : PostTicketInsert(s)
    \/ \E s \in Slots : PostTicketNotify(s)
    \/ \E p \in Principals, id \in 1..MaxTickets : Quiet /\ DeleteTicket(1, p, id)
    \/ \E s \in Slots : DeleteTicketDelete(s)

NumberSpec == Init /\ [][NumberNext]_vars

\* C2: no ticketNumber is stored by two inserts, whatever was deleted in between.
C2_NumberNeverReused ==
    \A i \in 1..Len(issued) : \A j \in 1..Len(issued) : i # j => issued[i] # issued[j]

----------------------------------------------------------------------------
(* Ticket numbers: tickets are created by requests that overlap *)

CreateNext ==
    \/ \E s \in Slots, p \in Principals, body \in {PlainBody, [subject |-> "s"]} :
          PostTicket(s, p, body)
    \/ \E s \in Slots : PostTicketInsert(s)
    \/ \E s \in Slots : PostTicketNotify(s)

CreateSpec == Init /\ [][CreateNext]_vars

\* C3: every createTicket of an existing user with valid fields ends with its ticket
\* created, however the requests interleave, and the tickets in the store carry
\* pairwise distinct ticketNumbers.
C3_ConcurrentCreatesAllSucceed ==
    /\ \A s \in Slots :
          (/\ req[s].op = "postTicket" /\ req[s].pc = "done"
           /\ req[s].principal \in DOMAIN users
           /\ insertTicketSchema(Spread(req[s].body, [createdBy |-> req[s].principal])).ok)
          => req[s].code = 201 /\ req[s].out # {}
    /\ \A t \in tickets : \A u \in tickets : t.ticketNumber = u.ticketNumber => t = u

----------------------------------------------------------------------------
(* Statistics: tickets are created with and without a status, and counted *)

StatsBodies ==
    {PlainBody,
     [subject |-> "s", priority |-> "high", status |-> "closed"],
     [subject |-> "s", priority |-> "high", status |-> NULL]}

StatsNext ==
    \/ \E p \in Principals, body \in StatsBodies : Quiet /\ PostTicket(1, p, body)
    \/ \E s \in Slots : PostTicketInsert(s)
    \/ \E s \in Slots : PostTicketNotify(s)
    \/ \E p \in Principals : Quiet /\ GetStats(1, p)
    \/ \E s \in Slots : GetStatsRead(s)

StatsSpec == Init /\ [][StatsNext]_vars

Holding(status) == Cardinality({t \in tickets : t.status = status})

\* C4: the result of getStats has total = the number of tickets, each status count =
\* the number of tickets holding that status, and the four counts sum to total.
C4_StatsSumToTotal ==
    \A s \in Slots :
        req[s].op = "getStats" /\ req[s].pc = "done" /\ req[s].code = 200 =>
            \A st \in req[s].out :
                /\ st.total = Cardinality(tickets)
                /\ st.open = Holding("open") /\ st.inProgress = Holding("in_progress")
                /\ st.resolved = Holding("resolved") /\ st.closed = Holding("closed")
                /\ st.open + st.inProgress + st.resolved + st.closed = st.total

----------------------------------------------------------------------------
(* Access: tickets are created, read, listed and commented on, one
   request at a time, by the admin a, the employees e and f, and a caller g
   who has no row in users *)

AccessCreateBodies == {PlainBody, [subject |-> "s", priority |-> "high", assignedTo |-> "f"]}

AccessPatchBodies == {[status |-> "closed"], [assignedTo |-> "e"]}

AccessCommentBodies == {[content |-> "hi"], EmptyObj}

TicketIds == 1..(MaxTickets + 1)

AccessNext ==
    \/ \E p \in {"e", "f"}, body \in AccessCreateBodies : Quiet /\ PostTicket(1, p, body)
    \/ \E s \in Slots : PostTicketInsert(s)
    \/ \E s \in Slots : PostTicketNotify(s)
    \/ \E p \in Principals : Quiet /\ ListTickets(1, p)
    \/ \E s \in Slots : ListTicketsRead(s)
    \/ \E p \in Principals, id \in 1..MaxTickets : Quiet /\ GetTicket(1, p, id)
    \/ \E s \in Slots : GetTicketRead(s)
    \/ \E p \in Principals, id \in 1..MaxTickets : Quiet /\ GetComments(1, p, id)
    \/ \E s \in Slots : GetCommentsCheck(s)
    \/ \E s \in Slots : GetCommentsRead(s)
    \/ \E p \in Principals, id \in 1..MaxTickets, body \in AccessCommentBodies :
          Quiet /\ PostComment(1, p, id, body)
    \/ \E s \in Slots : PostCommentCheck(s)
    \/ \E s \in Slots : PostCommentInsert(s)

AccessSpec == Init /\ [][AccessNext]_vars

(* Permission to update: tickets are created and updated, one request at a time *)

PermitNext ==
    \/ \E body \in AccessCreateBodies : Quiet /\ PostTicket(1, "e", body)
    \/ \E s \in Slots : PostTicketInsert(s)
    \/ \E s \in Slots : PostTicketNotify(s)
    \/ \E p \in Principals, id \in TicketIds, body \in AccessPatchBodies :
          Quiet /\ PatchTicket(1, p, id, body)
    \/ \E s \in Slots : PatchTicketRead(s)
    \/ \E s \in Slots : PatchTicketUpdate(s)
    \/ \E s \in Slots : PatchTicketNotifyClosed(s)
    \/ \E s \in Slots : PatchTicketNotifyAssigned(s)

PermitSpec == Init /\ [][PermitNext]_vars

\* the principal's stored role is admin
AdminNow(p) == p \in DOMAIN users /\ users[p].role = "admin"

\* a non-admin principal who is neither the creator nor the assignee of the ticket
Outsider(p, t) == ~AdminNow(p) /\ p # t.createdBy /\ p # t.assignedTo

ReadOps == {"getTicket", "getComments", "postComment"}

\* C5: getTicket, listing the comments and addComment on an existing ticket answer
\* 403 with no data to an outsider and do not answer 403 to the admin, the creator
\* and the assignee; no step of an outsider's addComment stores a comment.
C5_OutsidersDenied ==
    [][/\ \A s \in Slots : \A t \in tickets' :
             (req'[s].op \in ReadOps /\ req'[s].pc = "done" /\ t.id = req'[s].id) =>
                 IF Outsider(req'[s].principal, t)
                 THEN req'[s].code = 403 /\ req'[s].out = {}
                 ELSE /\ req'[s].code \in {200, 201, 400}
                      /\ req'[s].op = "getTicket" => req'[s].code = 200 /\ t \in req'[s].out
                      /\ req'[s].op = "getComments" => req'[s].code = 200
       /\ \A s \in Slots : \A t \in tickets :
             (req[s].op = "postComment" /\ req'[s] # req[s] /\ t.id = req[s].id
              /\ Outsider(req[s].principal, t)) => comments' = comments]_vars

\* f was refused a ticket of e that is assigned to nobody, and e has commented on it
C5_Witness ==
    /\ \E s \in Slots : \E t \in tickets :
          /\ req[s].op \in ReadOps /\ req[s].pc = "done" /\ req[s].code = 403
          /\ t.id = req[s].id /\ req[s].principal = "f" /\ t.createdBy = "e"
    /\ \E c \in comments : c.userId = "e"

\* C6: listTickets answers a non-admin with exactly the tickets whose createdBy is
\* the caller, assigned ones not included, and an admin with all tickets.
C6_ListIsOwnTickets ==
    \A s \in Slots :
        req[s].op = "listTickets" /\ req[s].pc = "done" =>
            /\ req[s].code = 200
            /\ req[s].out = IF AdminNow(req[s].principal) THEN tickets
                            ELSE {t \in tickets : t.createdBy = req[s].principal}

\* f listed while assigned a ticket that f did not create
C6_Witness ==
    \E s \in Slots :
        /\ req[s].op = "listTickets" /\ req[s].pc = "done" /\ req[s].principal = "f"
        /\ \E t \in tickets : t.assignedTo = "f" /\ t.createdBy # "f"

\* C7: the update of an existing ticket goes past the permission check exactly when
\* the caller is admin or the ticket's assignee; anyone else, the creator included,
\* is answered 403 at once, with the tickets and the outbox left as they were.
C7_UpdateAdminOrAssignee ==
    [][\A s \in Slots : \A t \in tickets :
          (/\ req[s].op = "patchTicket" /\ req[s].pc = "getTicket"
           /\ req'[s] # req[s] /\ t.id = req[s].id) =>
              IF AdminNow(req[s].principal) \/ t.assignedTo = req[s].principal
              THEN req'[s].code # 403
              ELSE /\ req'[s].pc = "done" /\ req'[s].code = 403 /\ req'[s].out = {}
                   /\ tickets' = tickets /\ outbox' = outbox]_vars

\* the creator of a ticket was refused its update, and an assignee's update went through
C7_Witness ==
    /\ \E s \in Slots : \E t \in tickets :
          /\ req[s].op = "patchTicket" /\ req[s].pc = "done" /\ req[s].code = 403
          /\ t.id = req[s].id /\ t.createdBy = req[s].principal
    /\ \E t \in tickets : t.assignedTo = "e" /\ t.createdBy = "e"

----------------------------------------------------------------------------
(* Ticket lifecycle: tickets are created and updated, one request at a time, with
   bodies that carry the fields a client is not meant to set *)

LifecycleCreateBodies ==
    {PlainBody,
     [subject |-> "s", priority |-> "high", status |-> "resolved"],
     [subject |-> "s", priority |-> "high", assignedTo |-> "f"],
     [subject |-> "s", priority |-> "high", createdBy |-> "e",
      ticketNumber |-> TicketNumber(7), resolvedAt |-> 99, closedAt |-> 99],
     [subject |-> "s"]}

LifecyclePatchBodies ==
    {[status |-> "resolved"], [status |-> "closed"],
     [assignedTo |-> "e"], [assignedTo |-> NULL],
     [createdBy |-> "f", ticketNumber |-> TicketNumber(7)]}

LifecycleNext ==
    \/ \E p \in Principals, body \in LifecycleCreateBodies : Quiet /\ PostTicket(1, p, body)
    \/ \E s \in Slots : PostTicketInsert(s)
    \/ \E s \in Slots : PostTicketNotify(s)
    \/ \E p \in Principals, id \in TicketIds, body \in LifecyclePatchBodies :
          Quiet /\ PatchTicket(1, p, id, body)
    \/ \E s \in Slots : PatchTicketRead(s)
    \/ \E s \in Slots : PatchTicketUpdate(s)
    \/ \E s \in Slots : PatchTicketNotifyClosed(s)
    \/ \E s \in Slots : PatchTicketNotifyAssigned(s)

LifecycleSpec == Init /\ [][LifecycleNext]_vars

\* the request whose step this is acts for an admin
ByAdmin == \E s \in Slots : req'[s] # req[s] /\ AdminNow(req[s].principal)

\* C8: a step gives a new ticket an assignee, or changes the assignee of a ticket,
\* only when it is a step of an admin's request.
C8_AssignByAdminOnly ==
    [][/\ \A n \in tickets' :
             ((\A t \in tickets : t.id # n.id) /\ n.assignedTo # NULL) => ByAdmin
       /\ \A t \in tickets : \A n \in tickets' :
             (t.id = n.id /\ n.assignedTo # t.assignedTo) => ByAdmin]_vars

\* C9: no step changes the createdBy or the ticketNumber of a ticket.
C9_CreatorAndNumberKept ==
    [][\A t \in tickets : \A n \in tickets' :
          t.id = n.id => n.createdBy = t.createdBy /\ n.ticketNumber = t.ticketNumber]_vars

\* C10: the ticket answered by a createTicket that succeeded has status open, no
\* resolvedAt, no closedAt, and the number TKT- followed by the count of tickets
\* before it plus one, in decimal, padded with zeros to four digits or more.
C10_CreatedOpenAndNumbered ==
    \A s \in Slots :
        req[s].op = "postTicket" /\ req[s].pc = "done" /\ req[s].code = 201 =>
            /\ req[s].out # {}
            /\ \A t \in req[s].out :
                  /\ t.status = "open"
                  /\ t.resolvedAt = NullTime /\ t.closedAt = NullTime
                  /\ Len(t.ticketNumber) >= 4 + PadWidth
                  /\ t.ticketNumber =
                        <<"T", "K", "T", "-">> \o
                        padStart(DecimalString(Cardinality(tickets)), PadWidth, "0")

----------------------------------------------------------------------------
(* Created tickets: tickets are created while the roles of the team change, one
   request at a time *)

CreatedBodies == {PlainBody, [subject |-> "s", priority |-> "high", createdBy |-> "a"]}

CreatedRoleBodies == {[role |-> "admin"], [role |-> "employee"]}

CreatedNext ==
    \/ \E p \in {"e", "f"}, body \in CreatedBodies : Quiet /\ PostTicket(1, p, body)
    \/ PostTicketInsert(1)
    \/ PostTicketNotify(1)
    \/ \E p \in {"a", "f"}, target \in {"a", "f"}, body \in CreatedRoleBodies :
          Quiet /\ PatchRole(1, p, target, body)
    \/ PatchRoleUpdate(1)

CreatedSpec == Init /\ [][CreatedNext]_vars

\* C11: the ticket a create request inserts has the calling principal as its
\* creator, whatever createdBy the body of the request carried.
C11_CreatorIsCaller ==
    [][\A s \in Slots :
          req[s].op = "postTicket" /\ req[s].pc = "insert" /\ req'[s] # req[s]
          => \A t \in tickets' \ tickets : t.createdBy = req[s].principal]_vars

\* a stored ticket whose request named another user as its creator
C11_Witness ==
    \E s \in Slots :
        /\ req[s].op = "postTicket" /\ req[s].pc = "done" /\ req[s].code = 201
        /\ Has(req[s].body, "createdBy") /\ req[s].body["createdBy"] # req[s].principal
        /\ \E t \in req[s].out : t \in tickets /\ t.createdBy = req[s].principal

\* the outbox has grown by notifications of this kind and of no other
Emitted(kind) ==
    /\ Len(outbox') > Len(outbox)
    /\ SubSeq(outbox', 1, Len(outbox)) = outbox
    /\ \A i \in (Len(outbox) + 1)..Len(outbox') : outbox'[i].kind = kind

\* the emails of the users that are admins now
AdminEmails == {users[u].email : u \in {x \in DOMAIN users : users[x].role = "admin"
                                                             /\ Truthy(users[x].email)}}

\* C14 as stated: every create that succeeds emits one created notification, to
\* the emails of the admins of that moment, whether or not there are any.
C14_AlwaysNotified ==
    [][\A s \in Slots :
          req[s].op = "postTicket" /\ req[s].pc = "notify" /\ req'[s] # req[s]
          => /\ req'[s].code = 201
             /\ outbox' = Append(outbox, [kind |-> "created", ticket |-> req[s].ticket,
                                          to |-> AdminEmails])]_vars

\* C14: every create that succeeds emits one created notification, to the emails
\* of the admins of that moment, when some admin has an email, and none when no
\* admin has one; no other step emits a created notification.
C14_NotifiedIfAdmins ==
    [][/\ \A s \in Slots :
            req[s].op = "postTicket" /\ req[s].pc = "notify" /\ req'[s] # req[s]
            => /\ req'[s].code = 201
               /\ outbox' = IF AdminEmails # {}
                            THEN Append(outbox, [kind |-> "created", ticket |-> req[s].ticket,
                                                 to |-> AdminEmails])
                            ELSE outbox
       /\ Emitted("created")
          => \E s \in Slots : req[s].pc = "notify" /\ req'[s] # req[s]
      ]_vars

\* a ticket was created while the only admin had no email: no notification for
\* it; another was created while an admin had one
C14_Witness ==
    \E s \in Slots, t \in tickets :
        /\ req[s].op = "postTicket" /\ req[s].pc = "done" /\ req[s].code = 201
        /\ req[s].out = {t}
        /\ AdminEmails = {} /\ \E u \in DOMAIN users : users[u].role = "admin"
        /\ \A i \in 1..Len(outbox) : outbox[i].ticket # {t}
        /\ \E i \in 1..Len(outbox) : outbox[i].kind = "created" /\ outbox[i].to = {"a@x"}

----------------------------------------------------------------------------
(* Notifications: tickets are created, assigned and closed, one request at a
   time *)

NotifyPatchBodies ==
    {[status |-> "closed"], [status |-> "resolved"], [assignedTo |-> "e"],
     [assignedTo |-> "f"], [assignedTo |-> NULL], [status |-> "closed", assignedTo |-> "f"]}

NotifyNext ==
    \/ \E p \in {"e", "f"} : Quiet /\ PostTicket(1, p, PlainBody)
    \/ PostTicketInsert(1)
    \/ PostTicketNotify(1)
    \/ \E p \in UserIds, id \in 1..MaxTickets, body \in NotifyPatchBodies :
          Quiet /\ PatchTicket(1, p, id, body)
    \/ PatchTicketRead(1)
    \/ PatchTicketUpdate(1)
    \/ PatchTicketNotifyClosed(1)
    \/ PatchTicketNotifyAssigned(1)

NotifySpec == Init /\ [][NotifyNext]_vars

\* the emails a user can be reached at: one, or none
EmailsOf(userId) == {users[u].email : u \in {x \in DOMAIN users \cap {userId} : Truthy(users[x].email)}}

AsksNewAssignee(r) ==
    /\ Has(r.body, "assignedTo") /\ r.body["assignedTo"] \notin {NULL, ""}
    /\ \A t \in r.ticket : r.body["assignedTo"] # t.assignedTo

----------------------------------------------------------------------------
(* Delivery: the steps after the write with their awaits apart, one request at
   a time *)

DeliveryPatchBodies ==
    {[status |-> "closed"], [assignedTo |-> "e"], [status |-> "closed", assignedTo |-> "e"]}

DeliveryNext ==
    \/ \E p \in {"e", "f"} : Quiet /\ PostTicket(1, p, PlainBody)
    \/ PostTicketInsert(1)
    \/ PostTicketLookupFails(1)
    \/ PostTicketSend(1)
    \/ PostTicketSettle(1)
    \/ \E id \in 1..MaxTickets, body \in DeliveryPatchBodies : Quiet /\ PatchTicket(1, "a", id, body)
    \/ PatchTicketRead(1)
    \/ PatchTicketUpdate(1)
    \/ PatchTicketRereadFails(1)
    \/ PatchTicketSendClosed(1)
    \/ PatchTicketSettleClosed(1)
    \/ PatchTicketSendAssigned(1)
    \/ PatchTicketSettleAssigned(1)

DeliverySpec == Init /\ [][DeliveryNext]_vars

\* the positions of a handler after its write
PastWrite ==
    {"notify", "sending", "notifyClosed", "sendingClosed", "notifyAssigned", "sendingAssigned"}

\* C15: a create or update that has written its ticket answers with success and
\* the ticket stays as written, whatever step after the write fails.
C15_CommittedMeansSuccess ==
    [][\A s \in Slots :
          req[s].op \in {"postTicket", "patchTicket"} /\ req[s].pc \in PastWrite
          /\ req'[s].pc = "done"
          => req'[s].code \in {200, 201} /\ tickets' = tickets]_vars

\* C16: no create or update is held back by the transport: a handler whose
\* notification is with sendMail and not yet settled has already answered.
C16_NoWaitForDelivery ==
    \A s \in Slots : req[s].pc \notin {"sending", "sendingClosed", "sendingAssigned"}

----------------------------------------------------------------------------
(* Rejections: requests that are invalid, denied or fail among requests that
   succeed, one request at a time *)

RejectCreateBodies ==
    {PlainBody, [subject |-> "s"], [subject |-> "s", priority |-> "high", assignedTo |-> Ghost]}

\* the callers and bodies of the updates, the comments and the role updates
RejectPatches ==
    {<<"a", [status |-> "closed"]>>, <<"a", [status |-> "bogus"]>>,
     <<"a", [assignedTo |-> "f"]>>, <<"a", [assignedTo |-> Ghost]>>,
     <<"e", [status |-> "closed"]>>}

RejectComments == {<<"e", [content |-> "hi"]>>, <<"e", EmptyObj>>, <<"f", [content |-> "hi"]>>}

RejectRoles == {<<"a", [role |-> "admin"]>>, <<"a", [role |-> "owner"]>>, <<"e", [role |-> "admin"]>>}

RejectNext ==
    \/ \E body \in RejectCreateBodies : Quiet /\ PostTicket(1, "e", body)
    \/ PostTicketInsert(1)
    \/ PostTicketNotify(1)
    \/ \E c \in RejectPatches, id \in 1..MaxTickets : Quiet /\ PatchTicket(1, c[1], id, c[2])
    \/ PatchTicketRead(1)
    \/ PatchTicketUpdate(1)
    \/ PatchTicketNotifyClosed(1)
    \/ PatchTicketNotifyAssigned(1)
    \/ \E c \in RejectComments, id \in 1..MaxTickets : Quiet /\ PostComment(1, c[1], id, c[2])
    \/ PostCommentCheck(1)
    \/ PostCommentInsert(1)
    \/ \E c \in RejectRoles : Quiet /\ PatchRole(1, c[1], "f", c[2])
    \/ PatchRoleUpdate(1)

RejectSpec == Init /\ [][RejectNext]_vars

\* C17: a step that emits a notification is taken by a create that holds the row
\* it inserted, or by an update that holds the row it wrote, and that row is in
\* the store; so a request that wrote nothing emits nothing.
C17_NotifiedAfterWrite ==
    [][outbox' # outbox
       => \E s \in Slots :
             /\ req'[s] # req[s]
             /\ \/ /\ req[s].op = "postTicket" /\ req[s].pc = "notify"
                   /\ req[s].ticket # {} /\ req[s].ticket \subseteq tickets
                \/ /\ req[s].op = "patchTicket"
                   /\ req[s].pc \in {"notifyClosed", "notifyAssigned"}
                   /\ req[s].out # {} /\ req[s].out \subseteq tickets
      ]_vars

\* an update that failed at the foreign key has been answered 500: the outbox
\* holds the created notifications and no other
C17_Witness ==
    /\ outbox # <<>>
    /\ \A i \in 1..Len(outbox) : outbox[i].kind = "created"
    /\ \E s \in Slots :
          /\ req[s].op = "patchTicket" /\ req[s].pc = "done" /\ req[s].code = 500
          /\ req[s].body = [assignedTo |-> Ghost]

\* the positions of a handler before its write
BeforeWrite == {"idle", "done", "getTicket"}

\* C18: a step that answers with a validation error or with access denied leaves
\* users, tickets and comments as they are and is taken from a position before
\* the write; a step that changes one of them leads to a position after the
\* write or to an answer of success.
C18_ErrorsLeaveStore ==
    [][\A s \in Slots :
          req'[s] # req[s]
          => /\ req'[s].pc = "done" /\ req'[s].code \in {400, 403}
                => /\ <<users, tickets, comments>>' = <<users, tickets, comments>>
                   /\ req[s].pc \in BeforeWrite
             /\ <<users, tickets, comments>>' # <<users, tickets, comments>>
                => /\ req'[s].pc \in PastWrite \cup {"done"}
                   /\ req'[s].code \in {0, 200, 201}
      ]_vars

\* a role update with a role that is none has been answered 400 and the user has
\* the role it had
C18_Witness ==
    \E s \in Slots :
        /\ req[s].op = "patchRole" /\ req[s].pc = "done" /\ req[s].code = 400
        /\ req[s].principal = "a" /\ req[s].body = [role |-> "owner"]
        /\ users[req[s].target].role = "employee"
        /\ tickets # {} /\ comments # {}

----------------------------------------------------------------------------
(* The team: the operations of the admins, called by everybody, one request at
   a time *)

\* the callers: the admin, an employee and a principal without a users row
TeamCallers == {"a", "e", Ghost}

\* the targets and bodies of the role updates
TeamRoles ==
    {<<"a", [role |-> "employee"]>>, <<"e", [role |-> "admin"]>>, <<"e", [role |-> "employee"]>>,
     <<"e", [role |-> "owner"]>>, <<"e", EmptyObj>>, <<Ghost, [role |-> "admin"]>>}

TeamNext ==
    \/ Quiet /\ PostTicket(1, "a", PlainBody)
    \/ PostTicketInsert(1)
    \/ PostTicketNotify(1)
    \/ \E p \in TeamCallers, id \in 1..MaxTickets : Quiet /\ DeleteTicket(1, p, id)
    \/ DeleteTicketDelete(1)
    \/ \E p \in TeamCallers : Quiet /\ GetStats(1, p)
    \/ GetStatsRead(1)
    \/ \E p \in TeamCallers : Quiet /\ ListTeam(1, p)
    \/ ListTeamRead(1)
    \/ \E p \in TeamCallers, c \in TeamRoles : Quiet /\ PatchRole(1, p, c[1], c[2])
    \/ PatchRoleUpdate(1)

TeamSpec == Init /\ [][TeamNext]_vars

AdminOps == {"deleteTicket", "getStats", "listTeam", "patchRole"}

\* C19: a request for delete, stats, team or role update whose caller is not
\* stored as an admin, a caller without a users row included, is answered 403
\* at once, with no data, and leaves tickets and users as they are; a caller who
\* is an admin is not answered 403.
C19_AdminOnly ==
    [][\A s \in Slots :
          Free(s) /\ req'[s] # req[s] /\ req'[s].op \in AdminOps
          => IF AdminNow(req'[s].principal)
             THEN req'[s].code # 403
             ELSE /\ req'[s].pc = "done" /\ req'[s].code = 403 /\ req'[s].out = {}
                  /\ tickets' = tickets /\ users' = users]_vars

\* a caller without a users row has asked for the delete of a stored ticket
C19_Witness ==
    \E s \in Slots :
        /\ req[s].op = "deleteTicket" /\ req[s].pc = "done" /\ req[s].code = 403
        /\ req[s].principal = Ghost /\ getTicketById(req[s].id) # {}

Admins == {u \in DOMAIN users : users[u].role = "admin"}

----------------------------------------------------------------------------
(* Comments: tickets are created and commented, one request at a time *)

CommentBodies == {[content |-> "hi"], [content |-> ""], EmptyObj}

CommentNext ==
    \/ \E p \in {"e", "f"} : Quiet /\ PostTicket(1, p, PlainBody)
    \/ PostTicketInsert(1)
    \/ PostTicketNotify(1)
    \/ \E p \in UserIds, id \in TicketIds, body \in CommentBodies :
          Quiet /\ PostComment(1, p, id, body)
    \/ PostCommentCheck(1)
    \/ PostCommentInsert(1)
    \/ \E p \in UserIds, id \in TicketIds : Quiet /\ GetComments(1, p, id)
    \/ GetCommentsCheck(1)
    \/ GetCommentsRead(1)

CommentSpec == Init /\ [][CommentNext]_vars

\* C21: a comment request with empty content that reaches the validation is
\* answered 400, and no stored comment has empty content.
C21_NoEmptyComment ==
    /\ \A c \in comments : c.content # ""
    /\ \A s \in Slots :
          req[s].op = "postComment" /\ req[s].pc = "done"
          /\ Has(req[s].body, "content") /\ req[s].body["content"] = ""
          => req[s].code \in {400, 403, 404}

----------------------------------------------------------------------------
(* Absent ids: requests that name tickets and users the store does not hold, one
   request at a time *)

AbsentNext ==
    \/ Quiet /\ PostTicket(1, "e", PlainBody)
    \/ PostTicketInsert(1)
    \/ PostTicketNotify(1)
    \/ \E p \in {"a", "e"}, id \in TicketIds : Quiet /\ GetTicket(1, p, id)
    \/ GetTicketRead(1)
    \/ \E id \in TicketIds : Quiet /\ PatchTicket(1, "a", id, [status |-> "closed"])
    \/ PatchTicketRead(1)
    \/ PatchTicketUpdate(1)
    \/ PatchTicketNotifyClosed(1)
    \/ \E p \in {"a", "e"}, id \in TicketIds : Quiet /\ DeleteTicket(1, p, id)
    \/ DeleteTicketDelete(1)
    \/ \E id \in TicketIds : Quiet /\ PostComment(1, "e", id, [content |-> "hi"])
    \/ PostCommentCheck(1)
    \/ PostCommentInsert(1)
    \/ \E target \in {"e", Ghost} : Quiet /\ PatchRole(1, "a", target, [role |-> "admin"])
    \/ PatchRoleUpdate(1)

AbsentSpec == Init /\ [][AbsentNext]_vars

\* the request names a ticket or a user the store does not hold
Absent(r) ==
    \/ /\ r.op \in {"getTicket", "patchTicket", "deleteTicket", "postComment"}
       /\ getTicketById(r.id) = {}
    \/ r.op = "patchRole" /\ ValidRole(r.body) /\ r.target \notin DOMAIN users

\* C22: a step that answers a request naming a ticket or a user the store does
\* not hold answers 404, or 403 where the operation is for admins and the caller
\* is none, and leaves users, tickets and comments as they are.
C22_AbsentIsNotFound ==
    [][\A s \in Slots :
          req'[s] # req[s] /\ req'[s].pc = "done" /\ Absent(req'[s])
          => /\ \/ req'[s].code = 404
                \/ /\ req'[s].code = 403 /\ req'[s].op \in AdminOps
                   /\ ~AdminNow(req'[s].principal)
             /\ <<users, tickets, comments>>' = <<users, tickets, comments>>]_vars

----------------------------------------------------------------------------
(* Unique numbers: creates, updates and deletes of the admin that overlap *)

UniquePatchBody == [subject |-> "t", ticketNumber |-> TicketNumber(0)]

\* two requests under way at a time
UniqueNext ==
    \E s \in Slots \cap {1, 2} :
        \/ PostTicket(s, "a", PlainBody)
        \/ PostTicketInsert(s)
        \/ PostTicketNotify(s)
        \/ \E id \in 1..MaxTickets : PatchTicket(s, "a", id, UniquePatchBody)
        \/ PatchTicketRead(s)
        \/ PatchTicketUpdate(s)
        \/ \E id \in 1..MaxTickets : DeleteTicket(s, "a", id)
        \/ DeleteTicketDelete(s)

UniqueSpec == Init /\ [][UniqueNext]_vars

\* C23: no two tickets of the store hold the same ticket number.
C23_NumbersUnique ==
    \A t1, t2 \in tickets : t1.ticketNumber = t2.ticketNumber => t1.id = t2.id

\* a create was refused by the unique constraint while the store holds the
\* ticket with the number it had drawn, and an update has named that number
C23_Witness ==
    /\ \E s \in Slots : req[s].op = "postTicket" /\ req[s].pc = "done" /\ req[s].code = 500
    /\ \E t \in tickets : t.subject = "t" /\ t.ticketNumber = TicketNumber(0)

----------------------------------------------------------------------------
(* Frame: tickets are created, commented and updated field by field, one request
   at a time *)

FramePatchBodies ==
    {[status |-> "resolved"], [assignedTo |-> "f"], [subject |-> "t"],
     [id |-> MaxTickets + 1, priority |-> "low"]}

FrameNext ==
    \/ Quiet /\ PostTicket(1, "e", PlainBody)
    \/ PostTicketInsert(1)
    \/ PostTicketNotify(1)
    \/ \E id \in 1..MaxTickets : Quiet /\ PostComment(1, "e", id, [content |-> "hi"])
    \/ PostCommentCheck(1)
    \/ PostCommentInsert(1)
    \/ \E id \in TicketIds, body \in FramePatchBodies : Quiet /\ PatchTicket(1, "a", id, body)
    \/ PatchTicketRead(1)
    \/ PatchTicketUpdate(1)
    \/ PatchTicketNotifyAssigned(1)

FrameSpec == Init /\ [][FrameNext]_vars

Stamps == {"updatedAt", "resolvedAt", "closedAt"}

\* C24: the write of an update replaces the one ticket the request names by a
\* ticket that differs from it only in fields the body carries, in updatedAt and
\* in the stamp of the status the body asks for, and leaves users and comments
\* as they are; no other step of the update changes tickets, users or comments.
C24_UpdateFrame ==
    [][\A s \in Slots :
          req[s].op = "patchTicket" /\ req'[s] # req[s]
          => IF tickets' # tickets
             THEN /\ req[s].pc = "update"
                  /\ \E old \in getTicketById(req[s].id), new \in tickets' :
                        /\ tickets' = (tickets \ {old}) \cup {new}
                        /\ DOMAIN new = DOMAIN old
                        /\ \A k \in DOMAIN old \ (DOMAIN req[s].body \cup Stamps) :
                              new[k] = old[k]
                        /\ new.resolvedAt # old.resolvedAt
                           => Has(req[s].body, "status") /\ req[s].body["status"] = "resolved"
                        /\ new.closedAt # old.closedAt
                           => Has(req[s].body, "status") /\ req[s].body["status"] = "closed"
                  /\ users' = users /\ comments' = comments
             ELSE users' = users /\ comments' = comments
      ]_vars

\* the subject of an assigned, resolved ticket has been updated, with another
\* ticket and a comment in the store
C24_Witness ==
    \E s \in Slots, t \in tickets :
        /\ req[s].op = "patchTicket" /\ req[s].pc = "done" /\ req[s].code = 200
        /\ req[s].body = [subject |-> "t"] /\ req[s].id = t.id
        /\ t.subject = "t" /\ t.assignedTo = "f" /\ t.priority = "high"
        /\ Cardinality(tickets) > 1 /\ comments # {}

----------------------------------------------------------------------------
(* Races: updates of one ticket that overlap each other and a delete *)

RaceCreateBody == [subject |-> "s", priority |-> "high", assignedTo |-> "e"]

\* the callers and bodies of the updates
RacePatches ==
    {<<"a", [status |-> "resolved"]>>, <<"e", [status |-> "resolved"]>>,
     <<"a", [assignedTo |-> "f"]>>}

RaceNext ==
    \E s \in Slots :
        \/ Quiet /\ PostTicket(s, "e", RaceCreateBody)
        \/ PostTicketInsert(s)
        \/ PostTicketNotify(s)
        \/ \E c \in RacePatches, id \in 1..MaxTickets : PatchTicket(s, c[1], id, c[2])
        \/ PatchTicketRead(s)
        \/ PatchTicketUpdate(s)
        \/ PatchTicketNotifyAssigned(s)
        \/ \E id \in 1..MaxTickets : DeleteTicket(s, "a", id)
        \/ DeleteTicketDelete(s)

RaceSpec == Init /\ [][RaceNext]_vars

\* C25: under updates that overlap, a resolvedAt or closedAt that a ticket holds
\* is never replaced by another value.
C25_StampsKeptUnderRaces ==
    [][\A t \in tickets, n \in tickets' :
          n.id = t.id
          => /\ t.resolvedAt # NullTime => n.resolvedAt = t.resolvedAt
             /\ t.closedAt # NullTime => n.closedAt = t.closedAt]_vars

\* C28: the write of an update whose caller is not an admin changes a ticket
\* only if the ticket is assigned to the caller when the write is made.
C28_WriteByAssigneeOnly ==
    [][\A s \in Slots :
          req[s].op = "patchTicket" /\ req[s].pc = "update" /\ req'[s] # req[s]
          /\ tickets' # tickets /\ ~AdminNow(req[s].principal)
          => \A t \in getTicketById(req[s].id) : t.assignedTo = req[s].principal]_vars

----------------------------------------------------------------------------
(* Closures: closing updates of one ticket that overlap *)

CloseNext ==
    \E s \in Slots :
        \/ Quiet /\ PostTicket(s, "e", PlainBody)
        \/ PostTicketInsert(s)
        \/ PostTicketNotify(s)
        \/ \E id \in 1..MaxTickets : PatchTicket(s, "a", id, [status |-> "closed"])
        \/ PatchTicketRead(s)
        \/ PatchTicketUpdate(s)
        \/ PatchTicketNotifyClosed(s)

CloseSpec == Init /\ [][CloseNext]_vars

\* the closed notifications the outbox holds for a ticket
ClosedNotices(id) ==
    Cardinality({i \in 1..Len(outbox) : outbox[i].kind = "closed"
                                        /\ \A t \in outbox[i].ticket : t.id = id})

\* C27: where no ticket ever leaves the status closed, a ticket is closed at most
\* once, and the closed notifications emitted for it are as many: none while it
\* is not closed and never more than one.
C27_OneNoticePerClosure ==
    \A id \in 1..MaxTickets :
        /\ ClosedNotices(id) <= 1
        /\ ClosedNotices(id) = 1 => \E t \in getTicketById(id) : t.status = "closed"

----------------------------------------------------------------------------
(* Sequels: tickets are created and deleted, one request at a time, with one
   more create than the store holds tickets *)

SequelNext ==
    \/ \E p \in {"a", "e"} : Quiet /\ PostTicketWithin(1, p, PlainBody, MaxTickets + 1)
    \/ PostTicketInsert(1)
    \/ PostTicketNotify(1)
    \/ \E id \in 1..MaxTickets : Quiet /\ DeleteTicket(1, "a", id)
    \/ DeleteTicketDelete(1)

SequelSpec == Init /\ [][SequelNext]_vars

\* C29: with one request at a time, the insert of a create whose fields are valid
\* stores one more ticket and the handler goes on to answer 201.
C29_SequentialCreatesSucceed ==
    [][\A s \in Slots :
          req[s].op = "postTicket" /\ req[s].pc = "insert" /\ req'[s] # req[s]
          => /\ req'[s].pc = "notify"
             /\ Cardinality(tickets') = Cardinality(tickets) + 1]_vars

----------------------------------------------------------------------------
(* Roles: the operations of the admins and the tickets of others, called by two
   users whose roles change, one request at a time *)

RoleCallers == {"a", "e"}

\* the targets and bodies of the role updates
RoleChanges ==
    {<<"a", [role |-> "employee"]>>, <<"a", [role |-> "admin"]>>,
     <<"e", [role |-> "admin"]>>, <<"e", [role |-> "employee"]>>}

RoleNext ==
    \/ Quiet /\ PostTicket(1, "f", PlainBody)
    \/ PostTicketInsert(1)
    \/ PostTicketNotify(1)
    \/ \E p \in RoleCallers, c \in RoleChanges : Quiet /\ PatchRole(1, p, c[1], c[2])
    \/ PatchRoleUpdate(1)
    \/ \E p \in RoleCallers : Quiet /\ DeleteTicket(1, p, 1)
    \/ DeleteTicketDelete(1)
    \/ \E p \in RoleCallers : Quiet /\ GetStats(1, p)
    \/ GetStatsRead(1)
    \/ \E p \in RoleCallers : Quiet /\ ListTeam(1, p)
    \/ ListTeamRead(1)
    \/ \E p \in RoleCallers : Quiet /\ ListTickets(1, p)
    \/ ListTicketsRead(1)
    \/ \E p \in RoleCallers : Quiet /\ PatchTicket(1, p, 1, [status |-> "resolved"])
    \/ PatchTicketRead(1)
    \/ PatchTicketUpdate(1)

RoleSpec == Init /\ [][RoleNext]_vars

\* C30: with one request at a time, a request that has been answered was judged
\* by the role its caller holds in the store: delete, stats, team and the role
\* update of another user are denied exactly to callers who are no admins, the
\* listing holds every ticket for an admin and the caller's own for others, and
\* the update of a ticket assigned to somebody else is denied exactly to callers
\* who are no admins.
C30_StoredRoleDecides ==
    \A s \in Slots :
        LET r == req[s]
        IN r.pc = "done"
           => /\ \/ r.op \in {"deleteTicket", "getStats", "listTeam"}
                 \/ r.op = "patchRole" /\ r.target # r.principal
                 => (r.code = 403 <=> ~AdminNow(r.principal))
              /\ r.op = "listTickets"
                 => r.out = IF AdminNow(r.principal) THEN tickets
                            ELSE {t \in tickets : t.createdBy = r.principal}
              /\ r.op = "patchTicket"
                 => \A t \in getTicketById(r.id) :
                       t.assignedTo # r.principal
                       => (r.code = 403 <=> ~AdminNow(r.principal))

\* the former admin, made an employee by the employee it had made an admin, has
\* been denied the delete of a stored ticket
C30_Witness ==
    \E s \in Slots :
        /\ req[s].op = "deleteTicket" /\ req[s].pc = "done" /\ req[s].code = 403
        /\ req[s].principal = "a" /\ users["a"].role = "employee"
        /\ users["e"].role = "admin" /\ getTicketById(req[s].id) # {}

====
